---- MODULE Spec2Model ----
(***************************************************************************)
(* The AINews client (ainews/scripts/ainews_client.py) and the Moltbook    *)
(* credential store (ainews/scripts/moltbook_client.py) as a state         *)
(* machine.  The state is the process environment, the credentials files,  *)
(* the client object, and a record of the last invocation: the operation,  *)
(* its arguments, what the transport did, the HTTP requests it issued and  *)
(* how it ended.  Every action is one whole call of a public method.       *)
(***************************************************************************)
EXTENDS Integers, Sequences, FiniteSets, TLC

VARIABLES program, environ, cred_file, moltbook_file, client, last, proc

vars == <<program, environ, cred_file, moltbook_file, client, last, proc>>

(***************************************************************************)
(* Python values.  Every scalar is a record [t, v] of two strings so that  *)
(* values of different Python types can be compared.                       *)
(***************************************************************************)
Str(s) == [t |-> "str", v |-> s]

None == [t |-> "none", v |-> ""]

True == [t |-> "bool", v |-> "true"]

False == [t |-> "bool", v |-> "false"]

Num(digits) == [t |-> "int", v |-> digits]

\* bool(x) of a scalar
Truthy(x) ==
    ~ \/ x.t = "none"
      \/ x.t = "str" /\ x.v = ""
      \/ x.t = "bool" /\ x.v = "false"
      \/ x.t = "int" /\ x.v = "0"

\* a or b
Or(a, b) == IF Truthy(a) THEN a ELSE b

\* A dict with string keys is a function from a finite set of strings.
EmptyDict == [k \in {} |-> None]

\* d.get(key, default)
Get(d, key, default) == IF key \in DOMAIN d THEN d[key] ELSE default

\* d[key] = value
SetItem(d, key, value) == (key :> value) @@ d

\* A decoded JSON document: a dict, or any other JSON value (a list).
DictVal(d) == [t |-> "dict", d |-> d]

ListVal == [t |-> "list", d |-> EmptyDict]

NoVal == [t |-> "none", d |-> EmptyDict]

(***************************************************************************)
(* json.dump / json.load of a flat document, as a sequence of tokens.      *)
(***************************************************************************)
Punct(c) == [k |-> "punct", s |-> c]

\* the key order of the documents the clients write (dict insertion order)
KeySeq ==
    << "api_key", "journalist_name", "journalist_id", "verification_code",
       "verified", "registered_at", "base_url", "twitter_handle",
       "agent_name", "claim_url" >>

\* the encoding of one scalar
EncodeValue(x) ==
    CASE x.t = "str" -> [k |-> "string", s |-> x.v]
      [] x.t = "int" -> [k |-> "number", s |-> x.v]
      [] x.t = "bool" -> [k |-> "literal", s |-> x.v]
      [] OTHER -> [k |-> "literal", s |-> "null"]

IsValueToken(tok) ==
    \/ tok.k \in {"string", "number"}
    \/ tok.k = "literal" /\ tok.s \in {"null", "true", "false"}

\* the decoding of one value token
DecodeValue(tok) ==
    CASE tok.k = "string" -> Str(tok.s)
      [] tok.k = "number" -> Num(tok.s)
      [] tok.k = "literal" /\ tok.s = "null" -> None
      [] OTHER -> [t |-> "bool", v |-> tok.s]

RECURSIVE EncodeMembers(_, _, _)
EncodeMembers(d, i, first) ==
    IF i > Len(KeySeq) THEN << >>
    ELSE IF KeySeq[i] \in DOMAIN d
         THEN (IF first THEN << >> ELSE << Punct(",") >>)
              \o << [k |-> "string", s |-> KeySeq[i]], Punct(":"),
                    EncodeValue(d[KeySeq[i]]) >>
              \o EncodeMembers(d, i + 1, FALSE)
         ELSE EncodeMembers(d, i + 1, first)

\* json.dump(d, f, indent=2): the text of the file
Dumps(d) == << Punct("{") >> \o EncodeMembers(d, 1, TRUE) \o << Punct("}") >>

ParseOk(d) == [ok |-> TRUE, d |-> d]

ParseError == [ok |-> FALSE, d |-> EmptyDict]

RECURSIVE ParseMembers(_, _, _)
ParseMembers(toks, i, acc) ==
    IF /\ i + 3 <= Len(toks)
       /\ toks[i].k = "string"
       /\ toks[i + 1] = Punct(":")
       /\ IsValueToken(toks[i + 2])
    THEN LET acc2 == SetItem(acc, toks[i].s, DecodeValue(toks[i + 2]))
         IN  IF toks[i + 3] = Punct(",") THEN ParseMembers(toks, i + 4, acc2)
             ELSE IF toks[i + 3] = Punct("}") /\ i + 3 = Len(toks)
                  THEN ParseOk(acc2)
                  ELSE ParseError
    ELSE ParseError

\* json.load(f): the document, or json.JSONDecodeError
Loads(toks) ==
    IF Len(toks) >= 2 /\ toks[1] = Punct("{")
    THEN IF Len(toks) = 2 /\ toks[2] = Punct("}")
         THEN ParseOk(EmptyDict)
         ELSE ParseMembers(toks, 2, EmptyDict)
    ELSE ParseError

\* A file: whether the path exists, and its text.
NoFile == [exists |-> FALSE, text |-> << >>]

FileOf(toks) == [exists |-> TRUE, text |-> toks]

(***************************************************************************)
(* Exceptions, outcomes of a call, and the transport.                      *)
(***************************************************************************)
\* An exception object.  context is the type of the exception that was being
\* handled when this one was raised (Python's implicit chaining), or "".
Exc(type, message, code, details, context) ==
    [type |-> type, message |-> message, code |-> code, details |-> details,
     context |-> context]

NoExc == Exc("", None, None, None, "")

\* AINewsError(message, code=None, details=None)
AINewsError(message, code, details) ==
    Exc("AINewsError", message, code, details, "")

Return(val) == [k |-> "return", val |-> val, exc |-> NoExc]

Raise(e) == [k |-> "raise", val |-> NoVal, exc |-> e]

\* the subclasses of requests.RequestException the transport raises
RequestExceptionTypes == {"ConnectionError", "Timeout"}

\* a handler that catches requests.ConnectionError alone
IsRequestException_connection_only(e) == e.type = "ConnectionError"

\* isinstance(e, requests.RequestException)
IsRequestException(e) == e.type \in RequestExceptionTypes

\* A response body: JSON object, other JSON value, or not JSON at all.
\* sub holds the members of an object that are objects themselves.
Body(json, obj, sub, text) ==
    [json |-> json, obj |-> obj, sub |-> sub, text |-> text]

NoBody == Body("invalid", EmptyDict, EmptyDict, "")

\* What the transport does with one request: it raises, or it answers.
Fault(type, text) == [exc |-> type, text |-> text, status |-> 0, body |-> NoBody]

Response(status, body) == [exc |-> "", text |-> "", status |-> status, body |-> body]

NoTransport == Fault("", "")

\* One HTTP request as it goes out.
Request(method, url, headers, json, params) ==
    [method |-> method, url |-> url, headers |-> headers, json |-> json,
     params |-> params]

(***************************************************************************)
(* AINewsClient                                                            *)
(***************************************************************************)
DEFAULT_BASE_URL == "https://ymoltinator.com/api"

\* os.environ.get(name, default)
EnvGet(env, name, default) == Get(env, name, default)

\* AINewsClient.__init__(api_key, base_url, journalist_name)
__init__(env, api_key, base_url, journalist_name) ==
    [base_url |-> Or(base_url, EnvGet(env, "AINEWS_BASE_URL", Str(DEFAULT_BASE_URL))),
     api_key |-> Or(api_key, EnvGet(env, "AINEWS_API_KEY", None)),
     journalist_name |-> journalist_name,
     session_headers |-> [h \in {"Content-Type", "User-Agent"} |->
                            IF h = "Content-Type" THEN Str("application/json")
                            ELSE Str("AINewsClient/1.0")]]

\* The result of a method: the client and the file after it, the requests
\* it issued, and how it ended.
Effect(self, file, sent, out) ==
    [client |-> self, file |-> file, sent |-> sent, out |-> out]

\* from_credentials that lets AINEWS_API_KEY win over the file
from_credentials_env_first(env, file) ==
    IF ~ file.exists
    THEN [client |-> __init__(env, None, None, None),
          out |-> Raise(Exc("FileNotFoundError", Str("Credentials file not found"),
                            None, None, ""))]
    ELSE [client |-> __init__(env, Or(EnvGet(env, "AINEWS_API_KEY", None),
                                      Get(Loads(file.text).d, "api_key", None)),
                              None,
                              Get(Loads(file.text).d, "journalist_name", None)),
          out |-> Return(NoVal)]

\* from_credentials that goes back to the base URL recorded in the file
from_credentials_with_recorded_url(env, file) ==
    IF ~ file.exists
    THEN [client |-> __init__(env, None, None, None),
          out |-> Raise(Exc("FileNotFoundError", Str("Credentials file not found"),
                            None, None, ""))]
    ELSE LET creds == Loads(file.text)
         IN  IF ~ creds.ok
             THEN [client |-> __init__(env, None, None, None),
                   out |-> Raise(Exc("JSONDecodeError", Str("Expecting value"),
                                     None, None, ""))]
             ELSE [client |-> __init__(env, Get(creds.d, "api_key", None),
                                       Get(creds.d, "base_url", None),
                                       Get(creds.d, "journalist_name", None)),
                   out |-> Return(NoVal)]

\* AINewsClient.from_credentials(): the new client, or FileNotFoundError
from_credentials(env, file) ==
    IF ~ file.exists
    THEN [client |-> __init__(env, None, None, None),
          out |-> Raise(Exc("FileNotFoundError", Str("Credentials file not found"),
                            None, None, ""))]
    ELSE LET creds == Loads(file.text)
         IN  IF ~ creds.ok
             THEN [client |-> __init__(env, None, None, None),
                   out |-> Raise(Exc("JSONDecodeError", Str("Expecting value"),
                                     None, None, ""))]
             ELSE [client |-> __init__(env, Get(creds.d, "api_key", None), None,
                                       Get(creds.d, "journalist_name", None)),
                   out |-> Return(NoVal)]

\* _save_credentials that forgets the verification code
_save_credentials_without_code(self, api_key, journalist_name, journalist_id, verification_code, verified, now) ==
    FileOf(Dumps([key \in {"api_key", "journalist_name", "journalist_id",
                           "verification_code", "verified", "registered_at",
                           "base_url"} |->
                    CASE key = "api_key" -> api_key
                      [] key = "journalist_name" -> journalist_name
                      [] key = "journalist_id" -> journalist_id
                      [] key = "verification_code" -> None
                      [] key = "verified" -> verified
                      [] key = "registered_at" -> Str(now)
                      [] OTHER -> self.base_url]))

\* AINewsClient._save_credentials: the credentials file it writes
_save_credentials(self, api_key, journalist_name, journalist_id, verification_code, verified, now) ==
    LET creds == [key \in {"api_key", "journalist_name", "journalist_id",
                           "verification_code", "verified", "registered_at",
                           "base_url"} |->
                    CASE key = "api_key" -> api_key
                      [] key = "journalist_name" -> journalist_name
                      [] key = "journalist_id" -> journalist_id
                      [] key = "verification_code" -> verification_code
                      [] key = "verified" -> verified
                      [] key = "registered_at" -> Str(now)
                      [] OTHER -> self.base_url]
    IN  FileOf(Dumps(creds))

\* _get_headers with the auth_required test lost
_get_headers_ignoring_auth_required(self, auth_required) ==
    LET headers == [h \in {"Content-Type"} |-> Str("application/json")]
    IN  IF Truthy(self.api_key)
        THEN SetItem(headers, "X-API-Key", self.api_key)
        ELSE headers

\* AINewsClient._get_headers(auth_required)
_get_headers(self, auth_required) ==
    LET headers == [h \in {"Content-Type"} |-> Str("application/json")]
    IN  IF auth_required /\ Truthy(self.api_key)
        THEN SetItem(headers, "X-API-Key", self.api_key)
        ELSE headers

\* requests merges the session's headers under those of the request
MergeHeaders(session_headers, headers) == headers @@ session_headers

\* a decoding that gives an empty object for a body that is not JSON
DecodeBody_dropping_text(body) ==
    CASE body.json = "object" -> DictVal(body.obj)
      [] body.json = "array" -> ListVal
      [] OTHER -> DictVal(EmptyDict)

\* response.json(), with the fallback of lines 179-182
DecodeBody(body) ==
    CASE body.json = "object" -> DictVal(body.obj)
      [] body.json = "array" -> ListVal
      [] OTHER -> DictVal([key \in {"raw"} |-> Str(body.text)])

\* _request without the test for 204
HandleResponse_without_204(t) ==
    LET data == DecodeBody(t.body)
    IN  IF t.status >= 400
        THEN Raise(AINewsError(Get(data.d, "error", Str("HTTP " \o ToString(t.status))),
                               Get(data.d, "code", None), Get(data.d, "details", None)))
        ELSE Return(data)

\* the error of an error status without the body's code and details
ErrorOfStatus_message_only(status, data) ==
    IF data.t # "dict"
    THEN Exc("AttributeError", Str("'list' object has no attribute 'get'"),
             None, None, "")
    ELSE AINewsError(Get(data.d, "error", Str("HTTP " \o ToString(status))),
                     None, None)

\* lines 184-190: the error raised for an error status; data.get of a
\* value that is no dict is an AttributeError
ErrorOfStatus(status, data) ==
    IF data.t # "dict"
    THEN Exc("AttributeError", Str("'list' object has no attribute 'get'"),
             None, None, "")
    ELSE AINewsError(Get(data.d, "error", Str("HTTP " \o ToString(status))),
                     Get(data.d, "code", None), Get(data.d, "details", None))

\* lines 175-192: what _request makes of a response
HandleResponse(t) ==
    IF t.status = 204
    THEN Return(DictVal([key \in {"status"} |-> Str("success")]))
    ELSE LET data == DecodeBody(t.body)
         IN  IF t.status >= 400
             THEN Raise(ErrorOfStatus(t.status, data))
             ELSE Return(data)

\* lines 167-195: the try block and its handler
TryRequest(t) ==
    LET inner == IF t.exc # ""
                 THEN Raise(Exc(t.exc, Str(t.text), None, None, ""))
                 ELSE HandleResponse(t)
    IN  IF inner.k = "raise" /\ IsRequestException(inner.exc)
        THEN Raise(Exc("AINewsError",
                       Str("Request failed: " \o inner.exc.message.v),
                       None, None, inner.exc.type))
        ELSE inner

\* _request that sends the request again after a transport failure
_request_retrying(self, method, endpoint, auth_required, json, params, t) ==
    LET req == Request(method, self.base_url.v \o endpoint,
                       MergeHeaders(self.session_headers,
                                    [h \in {"Content-Type"} |-> Str("application/json")]
                                    @@ (IF auth_required /\ Truthy(self.api_key)
                                        THEN [h \in {"X-API-Key"} |-> self.api_key]
                                        ELSE EmptyDict)),
                       json, params)
    IN  [sent |-> IF t.exc # "" THEN << req, req >> ELSE << req >>,
         out |-> TryRequest(t)]

\* AINewsClient._request: the requests issued and the outcome
_request(self, method, endpoint, auth_required, json, params, t) ==
    LET url == self.base_url.v \o endpoint
        headers == _get_headers(self, auth_required)
        req == Request(method, url, MergeHeaders(self.session_headers, headers),
                       json, params)
    IN  [sent |-> << req >>, out |-> TryRequest(t)]

\* str.lstrip(chars) for a single character
RECURSIVE lstrip(_, _)
lstrip(s, c) ==
    IF Len(s) > 0 /\ SubSeq(s, 1, 1) = c
    THEN lstrip(SubSeq(s, 2, Len(s)), c)
    ELSE s

\* lines 222-236 of register: what it does with a response it received
RegisterResponse(self, file, response, save_credentials, now, sent) ==
    IF response.t # "dict"
    THEN Effect(self, file, sent,
                Raise(Exc("AttributeError",
                          Str("'list' object has no attribute 'get'"),
                          None, None, "")))
    ELSE LET self1 == [self EXCEPT
                         !.api_key = Get(response.d, "api_key", None),
                         !.journalist_name = Get(response.d, "name", None)]
             file1 == IF save_credentials /\ Truthy(self1.api_key)
                      THEN _save_credentials(self1, self1.api_key,
                               Get(response.d, "name", None),
                               Get(response.d, "id", None),
                               Get(response.d, "verification_code", None),
                               Get(response.d, "verified", False), now)
                      ELSE file
         IN  Effect(self1, file1, sent, Return(response))

\* a register that removes the credentials file when its request fails
register_discarding_file_on_error(self, file, name, save_credentials, t, now) ==
    LET r == _request(self, "POST", "/journalists/register", FALSE,
                      DictVal([key \in {"name"} |-> name]), NoVal, t)
    IN  IF r.out.k = "raise"
        THEN Effect(self, NoFile, r.sent, r.out)
        ELSE RegisterResponse(self, file, r.out.val, save_credentials, now, r.sent)

\* AINewsClient.register(name, save_credentials)
register(self, file, name, save_credentials, t, now) ==
    LET r == _request(self, "POST", "/journalists/register", FALSE,
                      DictVal([key \in {"name"} |-> name]), NoVal, t)
    IN  IF r.out.k = "raise"
        THEN Effect(self, file, r.sent, r.out)
        ELSE RegisterResponse(self, file, r.out.val, save_credentials, now, r.sent)

\* an update that writes a new document instead of changing the old one
VerifyUpdate_fresh_document(file, twitter_handle) ==
    IF ~ file.exists THEN [ok |-> TRUE, file |-> file]
    ELSE [ok |-> TRUE,
          file |-> FileOf(Dumps(
              [key \in {"api_key", "journalist_name", "verified",
                        "twitter_handle"} |->
                 CASE key = "verified" -> True
                   [] key = "twitter_handle" -> Str(lstrip(twitter_handle.v, "@"))
                   [] OTHER -> Get(Loads(file.text).d, key, None)]))]

\* lines 279-289 of verify: the update of the credentials file
VerifyUpdate(file, twitter_handle) ==
    IF ~ file.exists THEN [ok |-> TRUE, file |-> file]
    ELSE LET creds == Loads(file.text)
         IN  IF ~ creds.ok THEN [ok |-> FALSE, file |-> file]
             ELSE LET c1 == SetItem(creds.d, "verified", True)
                      c2 == SetItem(c1, "twitter_handle",
                                    Str(lstrip(twitter_handle.v, "@")))
                  IN  [ok |-> TRUE, file |-> FileOf(Dumps(c2))]

JSONDecodeError == Exc("JSONDecodeError", Str("Expecting value"), None, None, "")

\* a verify that marks the file verified before the server has answered
VerifyResolved_updating_first(self, file, twitter_handle, journalist_name, verification_code, t) ==
    LET u == VerifyUpdate(file, twitter_handle)
        r == _request(self, "POST", "/journalists/verify", FALSE,
                      DictVal([key \in {"journalist_name"} |-> journalist_name]),
                      NoVal, t)
    IN  IF ~ Truthy(journalist_name) \/ ~ Truthy(verification_code)
        THEN Effect(self, file, << >>,
                    Raise(AINewsError(
                        Str("journalist_name and verification_code are required"),
                        None, None)))
        ELSE Effect(self, u.file, r.sent, r.out)

\* lines 265-289 of verify, once the name and the code are resolved
VerifyResolved(self, file, twitter_handle, journalist_name, verification_code, t) ==
    IF ~ Truthy(journalist_name) \/ ~ Truthy(verification_code)
    THEN Effect(self, file, << >>,
                Raise(AINewsError(
                    Str("journalist_name and verification_code are required"),
                    None, None)))
    ELSE LET payload == [key \in {"journalist_name", "verification_code",
                                  "twitter_handle"} |->
                           CASE key = "journalist_name" -> journalist_name
                             [] key = "verification_code" -> verification_code
                             [] OTHER -> Str(lstrip(twitter_handle.v, "@"))]
             r == _request(self, "POST", "/journalists/verify", FALSE,
                           DictVal(payload), NoVal, t)
             u == VerifyUpdate(file, twitter_handle)
         IN  IF r.out.k = "raise" THEN Effect(self, file, r.sent, r.out)
             ELSE IF ~ u.ok THEN Effect(self, file, r.sent, Raise(JSONDecodeError))
             ELSE Effect(self, u.file, r.sent, r.out)

\* AINewsClient.verify(twitter_handle, journalist_name, verification_code)
verify(self, file, twitter_handle, journalist_name, verification_code, t) ==
    IF (~ Truthy(journalist_name) \/ ~ Truthy(verification_code)) /\ file.exists
    THEN LET creds == Loads(file.text)
         IN  IF ~ creds.ok
             THEN Effect(self, file, << >>, Raise(JSONDecodeError))
             ELSE VerifyResolved(self, file, twitter_handle,
                      Or(journalist_name, Get(creds.d, "journalist_name", None)),
                      Or(verification_code, Get(creds.d, "verification_code", None)),
                      t)
    ELSE VerifyResolved(self, file, twitter_handle, journalist_name,
                        verification_code, t)

\* a method that is one call of _request and nothing else
Projection(self, file, r) == Effect(self, file, r.sent, r.out)

\* AINewsClient.get_stories(page, per_page)
get_stories(self, file, page, per_page, t) ==
    Projection(self, file,
        _request(self, "GET", "/stories", FALSE, NoVal,
                 DictVal([key \in {"page", "per_page"} |->
                            IF key = "page" THEN page ELSE per_page]), t))

\* AINewsClient.get_story(story_id)
get_story(self, file, story_id, t) ==
    Projection(self, file,
        _request(self, "GET", "/stories/" \o story_id, FALSE, NoVal, NoVal, t))

\* post_story that asks for content and url both
post_story_requiring_both(self, file, title, content, url, t) ==
    IF ~ Truthy(content) \/ ~ Truthy(url)
    THEN Effect(self, file, << >>,
                Raise(AINewsError(Str("Either content or url is required"),
                                  None, None)))
    ELSE Projection(self, file,
             _request(self, "POST", "/stories", TRUE,
                      DictVal([key \in {"title", "content", "url"} |->
                                 CASE key = "title" -> title
                                   [] key = "content" -> content
                                   [] OTHER -> url]), NoVal, t))

\* AINewsClient.post_story(title, content, url)
post_story(self, file, title, content, url, t) ==
    IF ~ Truthy(content) /\ ~ Truthy(url)
    THEN Effect(self, file, << >>,
                Raise(AINewsError(Str("Either content or url is required"),
                                  None, None)))
    ELSE LET p0 == [key \in {"title"} |-> title]
             p1 == IF Truthy(content) THEN SetItem(p0, "content", content) ELSE p0
             p2 == IF Truthy(url) THEN SetItem(p1, "url", url) ELSE p1
         IN  Projection(self, file,
                 _request(self, "POST", "/stories", TRUE, DictVal(p2), NoVal, t))

\* AINewsClient.upvote_story(story_id)
upvote_story(self, file, story_id, t) ==
    Projection(self, file,
        _request(self, "POST", "/stories/" \o story_id \o "/upvote", FALSE,
                 NoVal, NoVal, t))

\* AINewsClient.health()
health(self, file, t) ==
    Projection(self, file,
        _request(self, "GET", "/health", FALSE, NoVal, NoVal, t))

(***************************************************************************)
(* The Moltbook credential store and its one writer, register.             *)
(***************************************************************************)
AGENT_NAME == "YmoltinatorNews"

BASE_URL == "https://www.moltbook.com/api/v1"

\* moltbook_client.load_credentials(): the document, or None
load_credentials(file) ==
    IF file.exists
    THEN LET creds == Loads(file.text)
         IN  IF creds.ok THEN Return(DictVal(creds.d)) ELSE Raise(JSONDecodeError)
    ELSE Return(NoVal)

\* save_credentials that leaves out the fields whose value is None
save_credentials_dropping_null(creds) ==
    FileOf(Dumps([key \in { k \in DOMAIN creds : creds[k] # None } |-> creds[key]]))

\* moltbook_client.save_credentials(creds): the file it writes
save_credentials(creds) == FileOf(Dumps(creds))

\* moltbook_client.get_headers(api_key)
get_headers(api_key) ==
    LET headers == [h \in {"Content-Type"} |-> Str("application/json")]
    IN  IF Truthy(api_key)
        THEN SetItem(headers, "Authorization", Str("Bearer " \o api_key.v))
        ELSE headers

\* lines 72-83 of register: the credentials built from the response
MoltbookCreds(agent, now) ==
    LET c0 == [key \in {"api_key", "agent_name", "registered_at"} |->
                 CASE key = "api_key" -> agent["api_key"]
                   [] key = "agent_name" -> Str(AGENT_NAME)
                   [] OTHER -> Str(now)]
        c1 == IF "claim_url" \in DOMAIN agent
              THEN SetItem(c0, "claim_url", agent["claim_url"]) ELSE c0
    IN  IF "verification_code" \in DOMAIN agent
        THEN SetItem(c1, "verification_code", agent["verification_code"]) ELSE c1

\* moltbook_client.register()
moltbook_register(self, file, t, now) ==
    LET req == Request("POST", BASE_URL \o "/agents/register", get_headers(None),
                       DictVal([key \in {"name", "description"} |->
                                  IF key = "name" THEN Str(AGENT_NAME)
                                  ELSE Str("AI journalist for Ymoltinator News")]),
                       NoVal)
    IN  IF t.exc # ""
        THEN Effect(self, file, << req >>, Raise(Exc(t.exc, Str(t.text), None, None, "")))
        ELSE IF t.status \notin {200, 201}
        THEN Effect(self, file, << req >>, Return(NoVal))
        ELSE IF t.body.json = "invalid"
        THEN Effect(self, file, << req >>, Raise(JSONDecodeError))
        ELSE IF t.body.json = "object" /\ "agent" \in DOMAIN t.body.sub
                /\ "api_key" \in DOMAIN t.body.sub["agent"]
        THEN Effect(self, save_credentials(MoltbookCreds(t.body.sub["agent"], now)),
                    << req >>, Return(DecodeBody(t.body)))
        ELSE Effect(self, file, << req >>, Return(DecodeBody(t.body)))

(***************************************************************************)
(* The Moltbook functions that need credentials.  Each one loads the       *)
(* credentials, issues one request with requests.get or requests.post, and *)
(* returns the decoded body, or prints a message and returns None.         *)
(***************************************************************************)
\* The steps the functions share (lines 273-303 of create_post and alike):
\* `ok` holds the statuses the function takes for a success.
MoltbookRequest(self, file, method, endpoint, json, params, ok, t) ==
    LET creds == load_credentials(file)
    IN  IF creds.k = "raise" THEN Effect(self, file, << >>, creds)
        ELSE IF creds.val.t = "none" \/ creds.val.d = EmptyDict
        THEN Effect(self, file, << >>, Return(NoVal))
        ELSE IF "api_key" \notin DOMAIN creds.val.d
        THEN Effect(self, file, << >>,
                    Raise(Exc("KeyError", Str("'api_key'"), None, None, "")))
        ELSE LET req == Request(method, BASE_URL \o endpoint,
                                get_headers(creds.val.d["api_key"]), json, params)
             IN  IF t.exc # ""
                 THEN Effect(self, file, << req >>,
                             Raise(Exc(t.exc, Str(t.text), None, None, "")))
                 ELSE IF t.status \notin ok
                 THEN Effect(self, file, << req >>, Return(NoVal))
                 ELSE IF t.body.json = "invalid"
                 THEN Effect(self, file, << req >>, Raise(JSONDecodeError))
                 ELSE Effect(self, file, << req >>, Return(DecodeBody(t.body)))

\* lines 136-158 of get_feed and 228-241 of get_submolts: the list under
\* "data" or under `key` of the decoded body is counted, printed and returned
Listing(e, key) ==
    IF e.out.k = "raise" \/ e.out.val.t = "none" THEN e
    ELSE IF e.out.val.t # "dict"
    THEN [e EXCEPT !.out = Raise(Exc("AttributeError",
                                     Str("'list' object has no attribute 'get'"),
                                     None, None, ""))]
    ELSE LET d == e.out.val.d
         IN  IF "data" \notin DOMAIN d /\ key \notin DOMAIN d
             THEN [e EXCEPT !.out = Return(ListVal)]
             ELSE LET items == Get(d, "data", Get(d, key, None))
                  IN  IF items.t # "str"
                      THEN [e EXCEPT !.out = Raise(Exc("TypeError",
                                Str("object has no len()"), None, None, ""))]
                      ELSE IF items.v # ""
                      THEN [e EXCEPT !.out = Raise(Exc("AttributeError",
                                Str("'str' object has no attribute 'get'"),
                                None, None, ""))]
                      ELSE [e EXCEPT !.out = Return([t |-> "str", d |-> EmptyDict])]

\* moltbook_client.check_status()
check_status(self, file, t) ==
    MoltbookRequest(self, file, "GET", "/agents/status", NoVal, NoVal, {200}, t)

\* moltbook_client.get_feed(sort, limit)
get_feed(self, file, sort, limit, t) ==
    Listing(MoltbookRequest(self, file, "GET", "/posts", NoVal,
                DictVal([key \in {"sort", "limit"} |->
                           IF key = "sort" THEN sort ELSE limit]),
                {200}, t),
            "posts")

\* moltbook_client.get_post(post_id)
get_post(self, file, post_id, t) ==
    MoltbookRequest(self, file, "GET", "/posts/" \o post_id, NoVal, NoVal,
                    {200}, t)

\* moltbook_client.search_posts(query, limit)
search_posts(self, file, query, limit, t) ==
    MoltbookRequest(self, file, "GET", "/search", NoVal,
        DictVal([key \in {"q", "limit"} |-> IF key = "q" THEN query ELSE limit]),
        {200}, t)

\* moltbook_client.get_submolts()
get_submolts(self, file, t) ==
    Listing(MoltbookRequest(self, file, "GET", "/submolts", NoVal, NoVal,
                            {200}, t),
            "submolts")

\* moltbook_client.get_my_profile()
get_my_profile(self, file, t) ==
    MoltbookRequest(self, file, "GET", "/agents/me", NoVal, NoVal, {200}, t)

\* a create_post that refuses a post with neither content nor url
create_post_validating(self, file, submolt, title, content, url, t) ==
    IF ~ Truthy(content) /\ ~ Truthy(url)
    THEN Effect(self, file, << >>,
                Raise(Exc("ValueError", Str("Either content or url is required"),
                          None, None, "")))
    ELSE MoltbookRequest(self, file, "POST", "/posts",
             DictVal([key \in {"submolt", "title"} |->
                        IF key = "submolt" THEN submolt ELSE title]),
             NoVal, {200, 201}, t)

\* moltbook_client.create_post(submolt, title, content, url)
create_post(self, file, submolt, title, content, url, t) ==
    LET p0 == [key \in {"submolt", "title"} |->
                 IF key = "submolt" THEN submolt ELSE title]
        p1 == IF Truthy(content) THEN SetItem(p0, "content", content) ELSE p0
        payload == IF Truthy(url) THEN SetItem(p1, "url", url) ELSE p1
    IN  MoltbookRequest(self, file, "POST", "/posts", DictVal(payload), NoVal,
                        {200, 201}, t)

\* moltbook_client.add_comment(post_id, content, parent_id)
add_comment(self, file, post_id, content, parent_id, t) ==
    LET p0 == [key \in {"content"} |-> content]
        payload == IF Truthy(parent_id) THEN SetItem(p0, "parent_id", parent_id)
                   ELSE p0
    IN  MoltbookRequest(self, file, "POST", "/posts/" \o post_id \o "/comments",
                        DictVal(payload), NoVal, {200, 201}, t)

\* moltbook_client.upvote_post(post_id)
upvote_post(self, file, post_id, t) ==
    MoltbookRequest(self, file, "POST", "/posts/" \o post_id \o "/upvote",
                    NoVal, NoVal, {200}, t)

(***************************************************************************)
(* The command lines.  argv is sys.argv without the name of the script.    *)
(***************************************************************************)
\* str.lower() of one character
LowerChar(c) ==
    LET upper == "ABCDEFGHIJKLMNOPQRSTUVWXYZ"
        lower == "abcdefghijklmnopqrstuvwxyz"
        at == { i \in 1..26 : SubSeq(upper, i, i) = c }
    IN  IF at = {} THEN c ELSE LET i == CHOOSE i \in at : TRUE
                               IN  SubSeq(lower, i, i)

\* str.lower()
RECURSIVE Lower(_)
Lower(str) ==
    IF str = "" THEN ""
    ELSE LowerChar(SubSeq(str, 1, 1)) \o Lower(SubSeq(str, 2, Len(str)))

\* " ".join(words)
RECURSIVE Join(_)
Join(words) ==
    IF words = << >> THEN ""
    ELSE IF Len(words) = 1 THEN words[1]
    ELSE words[1] \o " " \o Join(Tail(words))

\* How a command ended: the effect of the function it ran (`ran` is its
\* name, "" when it ran none), the lines of the error report it printed,
\* the exception that left main, and the exit status of the process.
Exit(e, ran, printed, uncaught, exit_code) ==
    [client |-> e.client, file |-> e.file, sent |-> e.sent, out |-> e.out,
     ran |-> ran, printed |-> printed, uncaught |-> uncaught,
     exit_code |-> exit_code]

\* main returned without running a function (usage, unknown command)
NothingRan(self, file) ==
    Exit(Effect(self, file, << >>, Return(NoVal)), "", << >>, NoExc, Num("0"))

\* a main that ends the process with status 1 when its function gave None
MoltbookRan_failing_on_none(ran, e) ==
    IF e.out.k = "raise" THEN Exit(e, ran, << >>, e.out.exc, Num("1"))
    ELSE IF e.out.val.t = "none" THEN Exit(e, ran, << >>, NoExc, Num("1"))
    ELSE Exit(e, ran, << >>, NoExc, Num("0"))

\* moltbook_client.main runs one function and drops what it returns; an
\* exception of the function leaves main and ends the process with status 1
MoltbookRan(ran, e) ==
    IF e.out.k = "raise" THEN Exit(e, ran, << >>, e.out.exc, Num("1"))
    ELSE Exit(e, ran, << >>, NoExc, Num("0"))

\* moltbook_client.main()
moltbook_main(self, file, argv, t, now) ==
    LET n == Len(argv) + 1
        command == IF n < 2 THEN "" ELSE Lower(argv[1])
    IN  CASE n < 2 -> NothingRan(self, file)
          [] command = "register" ->
               MoltbookRan("register", moltbook_register(self, file, t, now))
          [] command = "status" ->
               MoltbookRan("check_status", check_status(self, file, t))
          [] command = "feed" ->
               MoltbookRan("get_feed", get_feed(self, file, Str("hot"), Num("25"), t))
          [] command = "new" ->
               MoltbookRan("get_feed", get_feed(self, file, Str("new"), Num("25"), t))
          [] command = "submolts" ->
               MoltbookRan("get_submolts", get_submolts(self, file, t))
          [] command = "profile" ->
               MoltbookRan("get_my_profile", get_my_profile(self, file, t))
          [] command = "search" /\ n > 2 ->
               MoltbookRan("search_posts",
                   search_posts(self, file, Str(Join(Tail(argv))), Num("25"), t))
          [] command = "post" /\ n > 2 ->
               MoltbookRan("get_post", get_post(self, file, argv[2], t))
          [] command = "create" ->
               IF n < 4 THEN NothingRan(self, file)
               ELSE MoltbookRan("create_post",
                        create_post(self, file, Str(argv[2]), Str(argv[3]),
                            IF n > 4 THEN Str(Join(SubSeq(argv, 4, Len(argv))))
                            ELSE None,
                            None, t))
          [] command = "comment" /\ n > 3 ->
               MoltbookRan("add_comment",
                   add_comment(self, file, argv[2],
                               Str(Join(SubSeq(argv, 3, Len(argv)))), None, t))
          [] command = "upvote" /\ n > 2 ->
               MoltbookRan("upvote_post", upvote_post(self, file, argv[2], t))
          [] OTHER -> NothingRan(self, file)

\* str.rstrip(c)
RECURSIVE rstrip(_, _)
rstrip(s, c) ==
    IF Len(s) > 0 /\ SubSeq(s, Len(s), Len(s)) = c
    THEN rstrip(SubSeq(s, 1, Len(s) - 1), c)
    ELSE s

\* str.strip() of a text whose only white space is the blank
strip(s) == rstrip(lstrip(s, " "), " ")

\* f"{x}" of a scalar
Format(x) ==
    CASE x.t = "none" -> "None"
      [] x.t = "bool" -> IF x.v = "true" THEN "True" ELSE "False"
      [] OTHER -> x.v

KeyError(key) == Exc("KeyError", Str("'" \o key \o "'"), None, None, "")

\* result[k] for each k of keys in turn, as the prints after a call do
\* (lines 459-461, 512-513, 525-526): the exception of the first that fails
Subscripts(result, keys) ==
    IF result.t # "dict"
    THEN Exc("TypeError", Str("list indices must be integers or slices, not str"),
             None, None, "")
    ELSE LET missing == { i \in 1..Len(keys) : keys[i] \notin DOMAIN result.d }
         IN  IF missing = {} THEN NoExc
             ELSE KeyError(keys[CHOOSE i \in missing : \A j \in missing : i <= j])

\* result.get(...) as the prints after verify and health do (480-482, 539)
Gets(result) ==
    IF result.t = "dict" THEN NoExc
    ELSE Exc("AttributeError", Str("'list' object has no attribute 'get'"),
             None, None, "")

\* print_stories(stories), line 409: stories[:limit] of a dict fails (with
\* TypeError; with KeyError from Python 3.12 on)
Slices(stories) ==
    IF stories.t = "dict"
    THEN Exc("TypeError", Str("unhashable type: 'slice'"), None, None, "")
    ELSE NoExc

\* The except clauses of main, lines 545-554, for a call of `ran` that
\* raised: AINewsError and FileNotFoundError are reported on stdout and end
\* the process with sys.exit(1); any other exception leaves main and the
\* interpreter ends the process with a traceback and status 1.
Handled(ran, e) ==
    LET exc == e.out.exc
        line(label, x) == IF Truthy(x) THEN << label \o Format(x) >> ELSE << >>
    IN  CASE exc.type = "AINewsError" ->
               Exit(e, ran,
                    << "Error: " \o Format(exc.message) >>
                       \o line("Code: ", exc.code)
                       \o line("Details: ", exc.details),
                    NoExc, Num("1"))
          [] exc.type = "FileNotFoundError" ->
               Exit(e, ran, << Format(exc.message) >>, NoExc, Num("1"))
          [] OTHER -> Exit(e, ran, << >>, exc, Num("1"))

\* main after the call of `ran`: `failure` is the exception of the prints
\* that follow a call that returned, NoExc when they work
Finish(ran, e, failure) ==
    IF e.out.k = "raise" THEN Handled(ran, e)
    ELSE IF failure # NoExc THEN Exit(e, ran, << >>, failure, Num("1"))
    ELSE Exit(e, ran, << >>, NoExc, Num("0"))

\* AINewsClient.from_credentials() if CREDENTIALS_FILE.exists() else
\* AINewsClient()
ClientFor(env, file) ==
    IF file.exists THEN from_credentials(env, file)
    ELSE [client |-> __init__(env, None, None, None), out |-> Return(NoVal)]

\* a command that builds its client with `built` and then calls a method
\* whose effect is e
Command(built, file, ran, e, failure) ==
    IF built.out.k = "raise"
    THEN Handled("from_credentials", Effect(built.client, file, << >>, built.out))
    ELSE Finish(ran, e, failure)

\* ainews_client.main()
ainews_main(env, file, argv, stdin, t, now) ==
    LET n == Len(argv) + 1
        command == IF n < 2 THEN "" ELSE Lower(argv[1])
        fresh == [client |-> __init__(env, None, None, None), out |-> Return(NoVal)]
        found == ClientFor(env, file)
        loaded == from_credentials(env, file)
        usage == NothingRan(fresh.client, file)
    IN  CASE n < 2 -> usage
          [] command = "register" ->
               IF n < 3 THEN usage
               ELSE LET e == register(fresh.client, file, Str(argv[2]), TRUE, t, now)
                    IN  Command(fresh, file, "register", e,
                                Subscripts(e.out.val, <<"name", "id", "api_key">>))
          [] command = "verify" ->
               IF n < 3 THEN usage
               ELSE LET e == verify(found.client, file, Str(argv[2]), None, None, t)
                    IN  Command(found, file, "verify", e, Gets(e.out.val))
          [] command = "stories" ->
               LET e == get_stories(found.client, file, Num("1"), Num("30"), t)
               IN  Command(found, file, "get_stories", e, Slices(e.out.val))
          [] command = "story" ->
               IF n < 3 THEN usage
               ELSE Command(found, file, "get_story",
                            get_story(found.client, file, argv[2], t), NoExc)
          [] command = "post" ->
               IF n < 3 THEN usage
               ELSE LET e == post_story(loaded.client, file, Str(argv[2]),
                                        Str(strip(stdin)), None, t)
                    IN  Command(loaded, file, "post_story", e,
                                Subscripts(e.out.val, <<"id", "title">>))
          [] command = "link" ->
               IF n < 4 THEN usage
               ELSE LET e == post_story(loaded.client, file, Str(argv[2]), None,
                                        Str(argv[3]), t)
                    IN  Command(loaded, file, "post_story", e,
                                Subscripts(e.out.val, <<"id", "title">>))
          [] command = "upvote" ->
               IF n < 3 THEN usage
               ELSE Command(fresh, file, "upvote_story",
                            upvote_story(fresh.client, file, argv[2], t), NoExc)
          [] command = "health" ->
               LET e == health(fresh.client, file, t)
               IN  Command(fresh, file, "health", e, Gets(e.out.val))
          [] OTHER -> usage

(***************************************************************************)
(* The inputs: what callers pass and what the server and the transport do. *)
(***************************************************************************)
\* the largest number of leading "@" a caller writes before a handle
MaxAt == 2

RECURSIVE AtPrefix(_)
AtPrefix(n) == IF n = 0 THEN "" ELSE "@" \o AtPrefix(n - 1)

Handles == { AtPrefix(n) \o "bob" : n \in 0 .. MaxAt }

Environs ==
    { EmptyDict,
      [name \in {"AINEWS_API_KEY"} |-> Str("env-key")],
      [name \in {"AINEWS_API_KEY", "AINEWS_BASE_URL"} |->
         IF name = "AINEWS_API_KEY" THEN Str("") ELSE Str("http://env.example/api")] }

Times == { "2026-01-01T00:00:00" }

RegBody1 ==
    Body("object",
         [key \in {"id", "name", "api_key", "verification_code", "verified"} |->
            CASE key = "id" -> Str("j-1")
              [] key = "name" -> Str("bot")
              [] key = "api_key" -> Str("key-1")
              [] key = "verification_code" -> Str("vc-1")
              [] OTHER -> False],
         EmptyDict, "")

RegBody2 ==
    Body("object",
         [key \in {"id", "name", "api_key"} |->
            CASE key = "id" -> Num("7")
              [] key = "name" -> Str("bot")
              [] OTHER -> Str("key-2")],
         EmptyDict, "")

ErrBody ==
    Body("object",
         [key \in {"error", "code", "details"} |->
            CASE key = "error" -> Str("not found")
              [] key = "code" -> Str("E404")
              [] OTHER -> Str("no such record")],
         EmptyDict, "")

ErrMsgBody == Body("object", [key \in {"error"} |-> Str("not found")], EmptyDict, "")

EmptyObjBody == Body("object", EmptyDict, EmptyDict, "")

ArrayBody == Body("array", EmptyDict, EmptyDict, "")

HtmlBody == Body("invalid", EmptyDict, EmptyDict, "<html>oops</html>")

Bodies ==
    { RegBody1, RegBody2, ErrBody, ErrMsgBody, EmptyObjBody, ArrayBody,
      HtmlBody }

Statuses == { 200, 204, 304, 404 }

Faults ==
    { Fault("ConnectionError", "Connection refused"),
      Fault("Timeout", "Read timed out") }

Transports == Faults \cup { Response(st, b) : st \in Statuses, b \in Bodies }

\* the "agent" member of a Moltbook registration response
Agents ==
    { [key \in {"api_key", "claim_url", "verification_code"} |->
         CASE key = "api_key" -> Str("moltbook_sk_1")
           [] key = "claim_url" -> Str("https://www.moltbook.com/claim/1")
           [] OTHER -> Str("reef-1")],
      [key \in {"api_key", "verification_code"} |->
         IF key = "api_key" THEN Str("moltbook_sk_2") ELSE None],
      [key \in {"api_key"} |-> Str("")],
      [key \in {"claim_url"} |-> Str("https://www.moltbook.com/claim/2")] }

MoltbookBodies ==
    { Body("object", [key \in {"success"} |-> True],
           [key \in {"agent"} |-> agent], "") : agent \in Agents }
    \cup { ErrBody, EmptyObjBody, ArrayBody, HtmlBody }

MoltbookTransports ==
    Faults \cup { Response(st, b) : st \in {200, 201, 404}, b \in MoltbookBodies }

\* the command lines of ainews_client.py
AINewsArgvs ==
    { << >>, <<"register">>, <<"register", "bot">>, <<"verify">>,
      <<"VERIFY", "@bob">>, <<"stories">>, <<"story">>, <<"story", "s1">>,
      <<"post">>, <<"post", "Title">>, <<"link", "Title">>,
      <<"link", "Title", "https://example.org/a">>, <<"upvote">>,
      <<"upvote", "s1">>, <<"health">>, <<"bogus">> }

\* what the command "post" finds on its standard input
Stdins == { "", "  ", " Story text " }

\* the command lines of moltbook_client.py
MoltbookArgvs ==
    { << >>, <<"register">>, <<"STATUS">>, <<"feed">>, <<"new">>,
      <<"submolts">>, <<"profile">>, <<"search">>, <<"search", "ai", "news">>,
      <<"post", "p1">>, <<"create", "general">>, <<"create", "general", "Hello">>,
      <<"create", "general", "Hello", "big", "world">>,
      <<"comment", "p1">>, <<"comment", "p1", "nice", "one">>,
      <<"upvote", "p1">>, <<"bogus">> }

\* the content, the url and the parent a caller gives to a post or a comment
Contents == { None, Str(""), Str("Hello world") }

Urls == { None, Str("https://example.org/a") }

Parents == { None, Str("c1") }

\* credentials documents a caller hands to save_credentials
Documents ==
    { EmptyDict,
      [key \in {"api_key"} |-> Str("moltbook_sk_3")],
      [key \in {"api_key", "agent_name", "verified"} |->
         CASE key = "api_key" -> Str("")
           [] key = "agent_name" -> None
           [] OTHER -> True],
      [key \in {"api_key", "registered_at", "verified", "claim_url"} |->
         CASE key = "api_key" -> Str("null")
           [] key = "registered_at" -> Num("0")
           [] key = "verified" -> False
           [] OTHER -> Str("true")] }

(***************************************************************************)
(* The state machine.                                                      *)
(***************************************************************************)
\* One process that runs verify and one that runs register, each with a
\* client of its own, share the credentials file.  pc is the place of the
\* process in its method, read is the file as the process last read it,
\* doc the file it is about to write, out how its method ended; log lists
\* the reads and writes of the file in the order they happened.
Processes(pc) ==
    [verify |-> [pc |-> pc, handle |-> "", read |-> NoFile, out |-> Return(NoVal)],
     register |-> [pc |-> pc, doc |-> NoFile, out |-> Return(NoVal)],
     log |-> << >>]

\* the two processes do not run
NoProcesses == Processes("")

\* no call is in progress: the caller has taken the last result
NoCall ==
    [op |-> "", args |-> EmptyDict, now |-> "", t |-> NoTransport,
     sent |-> << >>, out |-> Return(NoVal),
     before |-> [client |-> __init__(EmptyDict, None, None, None),
                 file |-> NoFile],
     ran |-> "", printed |-> << >>, uncaught |-> NoExc, exit_code |-> None]

\* the record of a call of `op` from the state (self, file) with effect e
Call(op, args, now, t, self, file, e) ==
    [op |-> op, args |-> args, now |-> now, t |-> t, sent |-> e.sent,
     out |-> e.out, before |-> [client |-> self, file |-> file],
     ran |-> IF "ran" \in DOMAIN e THEN e.ran ELSE "",
     printed |-> IF "printed" \in DOMAIN e THEN e.printed ELSE << >>,
     uncaught |-> IF "uncaught" \in DOMAIN e THEN e.uncaught ELSE NoExc,
     exit_code |-> IF "exit_code" \in DOMAIN e THEN e.exit_code ELSE None]

\* What runs: a program that calls the methods of one AINewsClient
\* ("ainews"), the commands of ainews_client.py, each in a process of its
\* own ("ainews_cli"), or the functions and commands of moltbook_client.py.
Programs == {"ainews", "ainews_cli", "moltbook"}

\* A fresh process of one of the programs: no credentials file yet, and
\* a client built by AINewsClient().  Every file a later state holds was
\* written by the client itself.
Init ==
    /\ program \in Programs
    /\ environ \in (IF program = "moltbook" THEN {EmptyDict} ELSE Environs)
    /\ cred_file = NoFile
    /\ moltbook_file = NoFile
    /\ client = __init__(environ, None, None, None)
    /\ last = NoCall
    /\ proc = NoProcesses

Idle(prog) == program = prog /\ last = NoCall

\* the effect e of an AINews method becomes the next state
Apply(op, args, now, t, e) ==
    /\ client' = e.client
    /\ cred_file' = e.file
    /\ last' = Call(op, args, now, t, client, cred_file, e)
    /\ UNCHANGED <<program, environ, moltbook_file, proc>>

\* client = AINewsClient(api_key, base_url, journalist_name)
Construct ==
    /\ Idle("ainews")
    /\ \E api_key \in {None, Str(""), Str("arg-key")},
          base_url \in {None, Str("http://arg.example/api")} :
         Apply("__init__",
               [a \in {"api_key", "base_url", "journalist_name"} |->
                  CASE a = "api_key" -> api_key
                    [] a = "base_url" -> base_url
                    [] OTHER -> None],
               "", NoTransport,
               Effect(__init__(environ, api_key, base_url, None), cred_file,
                      << >>, Return(NoVal)))

\* client = AINewsClient.from_credentials()
FromCredentials ==
    /\ Idle("ainews")
    /\ LET r == from_credentials(environ, cred_file)
       IN  Apply("from_credentials", EmptyDict, "", NoTransport,
                 Effect(IF r.out.k = "return" THEN r.client ELSE client,
                        cred_file, << >>, r.out))

Register ==
    /\ Idle("ainews")
    /\ \E save \in {True, False}, t \in Transports, now \in Times :
         Apply("register",
               [a \in {"name", "save_credentials"} |->
                  IF a = "name" THEN Str("bot") ELSE save],
               now, t,
               register(client, cred_file, Str("bot"), Truthy(save), t, now))

Verify ==
    /\ Idle("ainews")
    /\ \E handle \in Handles, given \in BOOLEAN, t \in Transports :
         LET name == IF given THEN Str("bot") ELSE None
             code == IF given THEN Str("vc-9") ELSE None
         IN  Apply("verify",
                   [a \in {"twitter_handle", "journalist_name",
                           "verification_code"} |->
                      CASE a = "twitter_handle" -> Str(handle)
                        [] a = "journalist_name" -> name
                        [] OTHER -> code],
                   "", t,
                   verify(client, cred_file, Str(handle), name, code, t))

GetStories ==
    /\ Idle("ainews")
    /\ \E t \in Transports :
         Apply("get_stories",
               [a \in {"page", "per_page"} |->
                  IF a = "page" THEN Num("1") ELSE Num("30")],
               "", t,
               get_stories(client, cred_file, Num("1"), Num("30"), t))

GetStory ==
    /\ Idle("ainews")
    /\ \E t \in Transports :
         Apply("get_story", [a \in {"story_id"} |-> Str("s1")], "", t,
               get_story(client, cred_file, "s1", t))

PostStory ==
    /\ Idle("ainews")
    /\ \E content \in {None, Str(""), Str("text")},
          url \in {None, Str("https://example.org/a")},
          t \in Transports :
         Apply("post_story",
               [a \in {"title", "content", "url"} |->
                  CASE a = "title" -> Str("T")
                    [] a = "content" -> content
                    [] OTHER -> url],
               "", t,
               post_story(client, cred_file, Str("T"), content, url, t))

UpvoteStory ==
    /\ Idle("ainews")
    /\ \E t \in Transports :
         Apply("upvote_story", [a \in {"story_id"} |-> Str("s1")], "", t,
               upvote_story(client, cred_file, "s1", t))

Health ==
    /\ Idle("ainews")
    /\ \E t \in Transports :
         Apply("health", EmptyDict, "", t, health(client, cred_file, t))

\* the effect e of a Moltbook function becomes the next state
MoltbookApply(op, args, now, t, e) ==
    /\ moltbook_file' = e.file
    /\ last' = Call(op, args, now, t, client, moltbook_file, e)
    /\ UNCHANGED <<program, environ, cred_file, client, proc>>

MoltbookRegister ==
    /\ Idle("moltbook")
    /\ \E t \in MoltbookTransports, now \in Times :
         MoltbookApply("register", EmptyDict, now, t,
                       moltbook_register(client, moltbook_file, t, now))

MoltbookSaveCredentials ==
    /\ Idle("moltbook")
    /\ \E creds \in Documents :
         MoltbookApply("save_credentials", creds, "", NoTransport,
                       Effect(client, save_credentials(creds), << >>,
                              Return(NoVal)))

MoltbookLoadCredentials ==
    /\ Idle("moltbook")
    /\ MoltbookApply("load_credentials", EmptyDict, "", NoTransport,
                     Effect(client, moltbook_file, << >>,
                            load_credentials(moltbook_file)))

CheckStatus ==
    /\ Idle("moltbook")
    /\ \E t \in MoltbookTransports :
         MoltbookApply("check_status", EmptyDict, "", t,
                       check_status(client, moltbook_file, t))

GetFeed ==
    /\ Idle("moltbook")
    /\ \E t \in MoltbookTransports, sort \in {"hot", "new"} :
         MoltbookApply("get_feed",
                       [a \in {"sort", "limit"} |->
                          IF a = "sort" THEN Str(sort) ELSE Num("25")],
                       "", t,
                       get_feed(client, moltbook_file, Str(sort), Num("25"), t))

GetPost ==
    /\ Idle("moltbook")
    /\ \E t \in MoltbookTransports :
         MoltbookApply("get_post", [a \in {"post_id"} |-> Str("p1")], "", t,
                       get_post(client, moltbook_file, "p1", t))

SearchPosts ==
    /\ Idle("moltbook")
    /\ \E t \in MoltbookTransports :
         MoltbookApply("search_posts",
                       [a \in {"query", "limit"} |->
                          IF a = "query" THEN Str("ai news") ELSE Num("25")],
                       "", t,
                       search_posts(client, moltbook_file, Str("ai news"),
                                    Num("25"), t))

GetSubmolts ==
    /\ Idle("moltbook")
    /\ \E t \in MoltbookTransports :
         MoltbookApply("get_submolts", EmptyDict, "", t,
                       get_submolts(client, moltbook_file, t))

GetMyProfile ==
    /\ Idle("moltbook")
    /\ \E t \in MoltbookTransports :
         MoltbookApply("get_my_profile", EmptyDict, "", t,
                       get_my_profile(client, moltbook_file, t))

CreatePost ==
    /\ Idle("moltbook")
    /\ \E t \in MoltbookTransports, content \in Contents, url \in Urls :
         MoltbookApply("create_post",
                       [a \in {"submolt", "title", "content", "url"} |->
                          CASE a = "submolt" -> Str("general")
                            [] a = "title" -> Str("Hello")
                            [] a = "content" -> content
                            [] OTHER -> url],
                       "", t,
                       create_post(client, moltbook_file, Str("general"),
                                   Str("Hello"), content, url, t))

AddComment ==
    /\ Idle("moltbook")
    /\ \E t \in MoltbookTransports, parent_id \in Parents :
         MoltbookApply("add_comment",
                       [a \in {"post_id", "content", "parent_id"} |->
                          CASE a = "post_id" -> Str("p1")
                            [] a = "content" -> Str("nice")
                            [] OTHER -> parent_id],
                       "", t,
                       add_comment(client, moltbook_file, "p1", Str("nice"),
                                   parent_id, t))

UpvotePost ==
    /\ Idle("moltbook")
    /\ \E t \in MoltbookTransports :
         MoltbookApply("upvote_post", [a \in {"post_id"} |-> Str("p1")], "", t,
                       upvote_post(client, moltbook_file, "p1", t))

\* python ainews_client.py argv... < stdin
AINewsMain ==
    /\ Idle("ainews_cli")
    /\ \E argv \in AINewsArgvs, stdin \in Stdins, t \in Transports,
          now \in Times :
         LET e == ainews_main(environ, cred_file, argv, stdin, t, now)
         IN  /\ cred_file' = e.file
             /\ last' = Call("main", [argv |-> argv, stdin |-> stdin], now, t,
                             client, cred_file, e)
             /\ UNCHANGED <<program, environ, moltbook_file, client, proc>>

\* python moltbook_client.py argv...
MoltbookMain ==
    /\ Idle("moltbook")
    /\ \E argv \in MoltbookArgvs, t \in MoltbookTransports, now \in Times :
         MoltbookApply("main", [a \in {"argv"} |-> argv], now, t,
                       moltbook_main(client, moltbook_file, argv, t, now))

\* the caller takes the result of the call; the next call can start
ReturnToCaller ==
    /\ last # NoCall
    /\ last' = NoCall
    /\ UNCHANGED <<program, environ, cred_file, moltbook_file, client, proc>>

Next ==
    \/ Construct
    \/ FromCredentials
    \/ Register
    \/ Verify
    \/ GetStories
    \/ GetStory
    \/ PostStory
    \/ UpvoteStory
    \/ Health
    \/ MoltbookRegister
    \/ MoltbookSaveCredentials
    \/ MoltbookLoadCredentials
    \/ CheckStatus
    \/ GetFeed
    \/ GetPost
    \/ SearchPosts
    \/ GetSubmolts
    \/ GetMyProfile
    \/ CreatePost
    \/ AddComment
    \/ UpvotePost
    \/ AINewsMain
    \/ MoltbookMain
    \/ ReturnToCaller

Spec == Init /\ [][Next]_vars

\* The credentials file as open(CREDENTIALS_FILE, 'w') leaves it before
\* json.dump has written the document (lines 131-132, 285-286): it exists
\* and is empty.  A process that starts while another one is between the
\* two, or after another one was stopped there, finds the file like this.
TruncatedFile == FileOf(<< >>)

InitWithTruncatedFile ==
    /\ program \in Programs
    /\ environ \in (IF program = "moltbook" THEN {EmptyDict} ELSE Environs)
    /\ cred_file \in (IF program = "moltbook" THEN {NoFile}
                      ELSE {NoFile, TruncatedFile})
    /\ moltbook_file = NoFile
    /\ client = __init__(environ, None, None, None)
    /\ last = NoCall
    /\ proc = NoProcesses

SpecWithTruncatedFile == InitWithTruncatedFile /\ [][Next]_vars

(***************************************************************************)
(* Two processes on one credentials file.  Nothing locks the file, so the  *)
(* steps of the two methods between their file accesses interleave freely. *)
(***************************************************************************)
\* write(2) at offset 0 of a file that another process may have written
\* since this one truncated it: what lies beyond the written text stays
Overlay(old, new) == new \o SubSeq(old, Len(new) + 1, Len(old))

\* a write-back that reads the file again at the moment it writes
WriteBack_rereading(read, current, twitter_handle) ==
    VerifyUpdate(FileOf(current), twitter_handle).file.text

\* lines 283-286 of verify: the text json.dump writes, made from the
\* document that line 282 read; the file as it is now is not looked at
WriteBack(read, current, twitter_handle) ==
    VerifyUpdate(read, twitter_handle).file.text

\* the file a register that the server answered with RegBody1 has left
RegisteredFile ==
    register(__init__(EmptyDict, None, None, None), NoFile, Str("bot"), TRUE,
             Response(200, RegBody1), "2025-12-31T00:00:00").file

ConcurrentInit ==
    /\ program = "concurrent"
    /\ environ = EmptyDict
    /\ cred_file \in {NoFile, RegisteredFile}
    /\ moltbook_file = NoFile
    /\ client = __init__(environ, None, None, None)
    /\ last = NoCall
    /\ \E handle \in Handles :
         proc = [Processes("start") EXCEPT !.verify.handle = handle]

Step(file, p) ==
    /\ cred_file' = file
    /\ proc' = p
    /\ UNCHANGED <<program, environ, moltbook_file, client, last>>

\* lines 258-263 of verify: the journalist_name and the verification_code
\* are loaded from the file
VerifyLoad ==
    /\ proc.verify.pc = "start"
    /\ Step(cred_file, [proc EXCEPT !.verify.pc = "loaded",
                                    !.verify.read = cred_file,
                                    !.log = Append(@, "verify.load")])

\* lines 265-277 of verify: the check of the name and the code, and the
\* request
VerifyRequest ==
    /\ proc.verify.pc = "loaded"
    /\ \E t \in Transports :
         LET e == verify(client, proc.verify.read, Str(proc.verify.handle),
                         None, None, t)
         IN  Step(cred_file,
                  [proc EXCEPT !.verify.out = e.out,
                               !.verify.pc = IF e.out.k = "raise" THEN "raised"
                                             ELSE "answered"])

\* lines 280-282 of verify: the file is read again, if it exists
VerifyRead ==
    /\ proc.verify.pc = "answered"
    /\ Step(cred_file,
            IF ~ cred_file.exists
            THEN [proc EXCEPT !.verify.pc = "returned"]
            ELSE IF ~ Loads(cred_file.text).ok
            THEN [proc EXCEPT !.verify.pc = "raised",
                              !.verify.out = Raise(JSONDecodeError),
                              !.log = Append(@, "verify.read")]
            ELSE [proc EXCEPT !.verify.pc = "read",
                              !.verify.read = cred_file,
                              !.log = Append(@, "verify.read")])

\* line 285 of verify: open(CREDENTIALS_FILE, 'w') truncates the file
VerifyOpen ==
    /\ proc.verify.pc = "read"
    /\ Step(TruncatedFile, [proc EXCEPT !.verify.pc = "opened",
                                        !.log = Append(@, "verify.open")])

\* line 286 of verify: json.dump writes the document back
VerifyDump ==
    /\ proc.verify.pc = "opened"
    /\ Step(FileOf(Overlay(cred_file.text,
                           WriteBack(proc.verify.read, cred_file.text,
                                     Str(proc.verify.handle)))),
            [proc EXCEPT !.verify.pc = "returned",
                         !.log = Append(@, "verify.dump")])

\* lines 217-227 of register: the request; what _save_credentials will
\* write depends on the response and the client alone
RegisterRequest ==
    /\ proc.register.pc = "start"
    /\ \E t \in Transports, now \in Times :
         LET e == register(client, NoFile, Str("bot"), TRUE, t, now)
         IN  Step(cred_file,
                  [proc EXCEPT !.register.out = e.out,
                               !.register.doc = e.file,
                               !.register.pc =
                                   IF e.out.k = "raise" THEN "raised"
                                   ELSE IF e.file.exists THEN "answered"
                                   ELSE "returned"])

\* line 131 of _save_credentials: open(CREDENTIALS_FILE, 'w')
RegisterOpen ==
    /\ proc.register.pc = "answered"
    /\ Step(TruncatedFile, [proc EXCEPT !.register.pc = "opened",
                                        !.log = Append(@, "register.open")])

\* line 132 of _save_credentials: json.dump writes the new document
RegisterDump ==
    /\ proc.register.pc = "opened"
    /\ Step(FileOf(Overlay(cred_file.text, proc.register.doc.text)),
            [proc EXCEPT !.register.pc = "returned",
                         !.log = Append(@, "register.dump")])

ConcurrentNext ==
    \/ VerifyLoad
    \/ VerifyRequest
    \/ VerifyRead
    \/ VerifyOpen
    \/ VerifyDump
    \/ RegisterRequest
    \/ RegisterOpen
    \/ RegisterDump

ConcurrentSpec == ConcurrentInit /\ [][ConcurrentNext]_vars

(***************************************************************************)
(* Properties.                                                             *)
(***************************************************************************)
AINewsOps ==
    { "register", "verify", "get_stories", "get_story", "post_story",
      "upvote_story", "health" }

\* the last call was an AINews operation
AINewsCall == program = "ainews" /\ last.op \in AINewsOps

\* the last call was an AINews operation that got a response from the server
Answered == AINewsCall /\ Len(last.sent) = 1 /\ last.t.exc = ""

\* a string with at least one character
NonEmpty(x) == x.t = "str" /\ x.v # ""

\* s begins with prefix
StartsWith(s, prefix) ==
    Len(s) >= Len(prefix) /\ SubSeq(s, 1, Len(prefix)) = prefix

SuccessSentinel == DictVal([key \in {"status"} |-> Str("success")])

\* C1: post_story with neither content nor url raises "Either content or url
\* is required" and sends nothing; with at least one of them it sends one
\* POST /stories whose payload is the title and exactly the non-empty ones
\* of content and url.
C1_PostStoryValidation ==
    (program = "ainews" /\ last.op = "post_story") =>
        LET content == last.args["content"]
            url == last.args["url"]
            given == { a \in {"content", "url"} : NonEmpty(last.args[a]) }
        IN  IF given = {}
            THEN /\ last.sent = << >>
                 /\ last.out.k = "raise"
                 /\ last.out.exc.type = "AINewsError"
                 /\ last.out.exc.message = Str("Either content or url is required")
            ELSE /\ Len(last.sent) = 1
                 /\ last.sent[1].method = "POST"
                 /\ last.sent[1].url = last.before.client.base_url.v \o "/stories"
                 /\ last.sent[1].json.t = "dict"
                 /\ DOMAIN last.sent[1].json.d = {"title"} \cup given
                 /\ \A a \in {"title"} \cup given :
                        last.sent[1].json.d[a] = last.args[a]

C1_Witness ==
    /\ program = "ainews" /\ last.op = "post_story"
    /\ last.args["content"] = Str("") /\ last.args["url"] = None
    /\ last.out.k = "raise" /\ last.sent = << >>

\* C2 as stated: every response whose status is not 2xx raises the API error
\* built from the body's error, code and details.
C2_Original ==
    (Answered /\ ~ (last.t.status >= 200 /\ last.t.status < 300)) =>
        /\ last.out.k = "raise"
        /\ last.out.exc.type = "AINewsError"

\* C2 (amended): a response whose status is 400 or more makes the operation
\* raise; when its body is a JSON object or no JSON at all, what is raised is
\* the API error whose message is the body's error field when present and
\* "HTTP <status>" otherwise, and whose code and details are the body's.
C2_ErrorStatusRaises ==
    (Answered /\ last.t.status >= 400) =>
        /\ last.out.k = "raise"
        /\ last.t.body.json # "array" =>
             LET fields == IF last.t.body.json = "object" THEN last.t.body.obj
                           ELSE EmptyDict
                 field(name) == IF name \in DOMAIN fields THEN fields[name] ELSE None
             IN  /\ last.out.exc.type = "AINewsError"
                 /\ last.out.exc.message =
                        (IF "error" \in DOMAIN fields THEN fields["error"]
                         ELSE Str("HTTP " \o ToString(last.t.status)))
                 /\ last.out.exc.code = field("code")
                 /\ last.out.exc.details = field("details")

C2_Witness ==
    /\ Answered /\ last.op = "get_story"
    /\ last.t.status = 404 /\ last.t.body = ErrMsgBody
    /\ last.out.k = "raise" /\ last.out.exc.message = Str("not found")

\* C3: a transport failure during an AINews operation raises the client's
\* own error, chained to the transport's exception, never that exception
\* itself; and the API error of an error status is not wrapped again.
C3_TransportFailureWrapped ==
    /\ (AINewsCall /\ Len(last.sent) >= 1 /\ last.t.exc # "") =>
           /\ last.out.k = "raise"
           /\ last.out.exc.type = "AINewsError"
           /\ last.out.exc.context = last.t.exc
           /\ last.out.exc.message = Str("Request failed: " \o last.t.text)
    /\ (AINewsCall /\ last.out.k = "raise") =>
           last.out.exc.type \notin RequestExceptionTypes
    /\ (Answered /\ last.out.k = "raise" /\ last.out.exc.type = "AINewsError") =>
           /\ last.out.exc.context = ""
           /\ ~ StartsWith(last.out.exc.message.v, "Request failed: ")

C3_Witness ==
    /\ AINewsCall /\ Len(last.sent) = 1
    /\ last.t.exc = "ConnectionError"
    /\ last.out.k = "raise" /\ last.out.exc.type = "AINewsError"

C5_ApiKeyHeader ==
    AINewsCall =>
        \A i \in 1 .. Len(last.sent) :
            /\ "X-API-Key" \in DOMAIN last.sent[i].headers <=>
                   (last.op = "post_story" /\ NonEmpty(last.before.client.api_key))
            /\ "X-API-Key" \in DOMAIN last.sent[i].headers =>
                   last.sent[i].headers["X-API-Key"] = last.before.client.api_key

C5_Witness ==
    /\ AINewsCall /\ last.op = "post_story" /\ Len(last.sent) = 1
    /\ last.before.client.api_key = Str("key-1")
    /\ last.sent[1].headers["X-API-Key"] = Str("key-1")

\* the document in a credentials file (the file exists and parses)
Document(file) == Loads(file.text).d

\* the first non-empty value of a sequence of candidates, or None
RECURSIVE FirstNonEmpty(_)
FirstNonEmpty(xs) ==
    IF xs = << >> THEN None
    ELSE IF NonEmpty(Head(xs)) THEN Head(xs) ELSE FirstNonEmpty(Tail(xs))

\* the last call built a client
Constructed ==
    /\ program = "ainews"
    /\ \/ last.op = "__init__"
       \/ last.op = "from_credentials" /\ last.out.k = "return"

EnvKey == IF "AINEWS_API_KEY" \in DOMAIN environ THEN environ["AINEWS_API_KEY"] ELSE None

FileKey ==
    IF cred_file.exists /\ "api_key" \in DOMAIN Document(cred_file)
    THEN Document(cred_file)["api_key"] ELSE None

Registered ==
    /\ program = "ainews" /\ last.op = "register" /\ last.out.k = "return"
    /\ last.args["save_credentials"] = True

\* what the file must hold of the response that register returned
StoresResponse(doc, response) ==
    /\ doc["api_key"] = Get(response, "api_key", None)
    /\ doc["journalist_name"] = Get(response, "name", None)
    /\ doc["journalist_id"] = Get(response, "id", None)
    /\ doc["verification_code"] = Get(response, "verification_code", None)

\* C7 as stated: after every register that returns with save_credentials
\* enabled the file holds the response's fields and the client its api_key.
C7_Original ==
    Registered =>
        /\ cred_file.exists
        /\ StoresResponse(Document(cred_file), last.out.val.d)
        /\ client.api_key = Document(cred_file)["api_key"]

\* C7 (amended): after a register that returns with save_credentials enabled
\* and a response that carries a non-empty api_key, the credentials file
\* exists and holds the api_key, name, id and verification_code of the
\* response (null for one the response lacks), and the client's api_key is
\* the stored one.
C7_RegisterSaves ==
    (Registered /\ Truthy(Get(last.out.val.d, "api_key", None))) =>
        /\ cred_file.exists
        /\ Loads(cred_file.text).ok
        /\ StoresResponse(Document(cred_file), last.out.val.d)
        /\ client.api_key = Document(cred_file)["api_key"]

C7_Witness ==
    /\ Registered
    /\ last.t.body = RegBody2
    /\ ~ last.before.file.exists
    /\ cred_file.exists
    /\ Document(cred_file)["journalist_id"] = Num("7")
    /\ Document(cred_file)["verification_code"] = None
    /\ client.api_key = Str("key-2")

\* the last call was a verify that returned while the file existed
Verified ==
    /\ program = "ainews" /\ last.op = "verify" /\ last.out.k = "return"
    /\ last.before.file.exists

\* new is old with verified true and twitter_handle set to handle
UpdatedWith(old, new, handle) ==
    /\ DOMAIN new = DOMAIN old \cup {"verified", "twitter_handle"}
    /\ new["verified"] = True
    /\ new["twitter_handle"] = handle
    /\ \A key \in DOMAIN old \ {"verified", "twitter_handle"} : new[key] = old[key]

\* h without its leading "@" characters
IsStripped(h, stripped) ==
    \E n \in 0 .. Len(h) :
        /\ \A i \in 1 .. n : SubSeq(h, i, i) = "@"
        /\ stripped = SubSeq(h, n + 1, Len(h))
        /\ ~ StartsWith(stripped, "@")

\* C8 as stated: the stored twitter_handle is the given handle.
C8_Original ==
    Verified =>
        /\ cred_file.exists
        /\ UpdatedWith(Document(last.before.file), Document(cred_file),
                       last.args["twitter_handle"])

\* C8 (amended): after a verify that succeeds while a credentials file
\* exists, the stored document is the document before the call except that
\* verified is true and twitter_handle is the given handle without its
\* leading "@" characters; every other field is unchanged.
C8_VerifyUpdatesInPlace ==
    Verified =>
        /\ cred_file.exists
        /\ Loads(cred_file.text).ok
        /\ \E stripped \in { SubSeq(last.args["twitter_handle"].v, n + 1,
                                    Len(last.args["twitter_handle"].v)) :
                             n \in 0 .. Len(last.args["twitter_handle"].v) } :
               /\ IsStripped(last.args["twitter_handle"].v, stripped)
               /\ UpdatedWith(Document(last.before.file), Document(cred_file),
                              Str(stripped))

C8_Witness ==
    /\ Verified
    /\ last.args["twitter_handle"] = Str("@bob")
    /\ Document(last.before.file)["verified"] = False
    /\ Document(cred_file)["verified"] = True
    /\ Document(cred_file)["twitter_handle"] = Str("bob")
    /\ Document(cred_file)["api_key"] = Str("key-1")

\* C9: a credentials document that was saved is read back equal.  Moltbook:
\* load_credentials() after save_credentials(c) returns c, and after a
\* register that saved it returns the credentials of the response.  AINews:
\* the document read back after _save_credentials has the seven fields that
\* were written, each with the value written, and from_credentials reads the
\* api_key and the journalist_name that were written.
C9_SaveLoadRoundTrip ==
    /\ (program = "moltbook" /\ last.op = "save_credentials") =>
           load_credentials(moltbook_file) = Return(DictVal(last.args))
    /\ (program = "moltbook" /\ last.op = "register"
        /\ moltbook_file # last.before.file) =>
           LET agent == last.t.body.sub["agent"]
               back == load_credentials(moltbook_file)
           IN  /\ back.k = "return" /\ back.val.t = "dict"
               /\ DOMAIN back.val.d =
                      {"api_key", "agent_name", "registered_at"}
                      \cup (DOMAIN agent \cap {"claim_url", "verification_code"})
               /\ back.val.d["agent_name"] = Str(AGENT_NAME)
               /\ back.val.d["registered_at"] = Str(last.now)
               /\ \A key \in DOMAIN back.val.d \ {"agent_name", "registered_at"} :
                      back.val.d[key] = agent[key]
    /\ (Registered /\ Truthy(Get(last.out.val.d, "api_key", None))) =>
           LET response == last.out.val.d
               back == Loads(cred_file.text)
               again == from_credentials(environ, cred_file)
           IN  /\ back.ok
               /\ back.d =
                      [key \in {"api_key", "journalist_name", "journalist_id",
                                "verification_code", "verified", "registered_at",
                                "base_url"} |->
                         CASE key = "api_key" -> response["api_key"]
                           [] key = "journalist_name" -> Get(response, "name", None)
                           [] key = "journalist_id" -> Get(response, "id", None)
                           [] key = "verification_code" ->
                                  Get(response, "verification_code", None)
                           [] key = "verified" -> Get(response, "verified", False)
                           [] key = "registered_at" -> Str(last.now)
                           [] OTHER -> last.before.client.base_url]
               /\ again.out.k = "return"
               /\ again.client.api_key = response["api_key"]
               /\ again.client.journalist_name = Get(response, "name", None)

C9_Witness ==
    /\ program = "moltbook" /\ last.op = "save_credentials"
    /\ "registered_at" \in DOMAIN last.args
    /\ last.args["api_key"] = Str("null")
    /\ last.args["verified"] = False
    /\ load_credentials(moltbook_file).val.d["registered_at"] = Num("0")

\* the journalist_name or the verification_code that verify sends is missing
\* from both its arguments and the credentials file
VerifyLacksIdentity ==
    LET doc == IF last.before.file.exists THEN Document(last.before.file)
               ELSE EmptyDict
        resolved(arg, key) ==
            IF NonEmpty(last.args[arg]) THEN last.args[arg] ELSE Get(doc, key, None)
    IN  \/ ~ Truthy(resolved("journalist_name", "journalist_name"))
        \/ ~ Truthy(resolved("verification_code", "verification_code"))

\* verify reads a credentials file that does not parse
VerifyFileUnreadable ==
    /\ last.before.file.exists
    /\ ~ Loads(last.before.file.text).ok
    /\ ~ (NonEmpty(last.args["journalist_name"])
          /\ NonEmpty(last.args["verification_code"]))

PostStoryLacksBody ==
    ~ NonEmpty(last.args["content"]) /\ ~ NonEmpty(last.args["url"])

\* C10 as stated: every operation issues exactly one request except
\* post_story with neither content nor url, which issues none.
C10_Original ==
    AINewsCall =>
        IF last.op = "post_story" /\ PostStoryLacksBody
        THEN Len(last.sent) = 0
        ELSE Len(last.sent) = 1

\* C10 (amended): every invocation of an AINews operation issues at most one
\* HTTP request, also after a failure; it issues none exactly when it fails
\* locally, which is post_story with neither content nor url and verify
\* whose journalist_name or verification_code is in neither its arguments
\* nor the credentials file, or whose credentials file does not parse.
C10_OneRequestPerCall ==
    AINewsCall =>
        /\ Len(last.sent) <= 1
        /\ Len(last.sent) = 0 <=>
               \/ last.op = "post_story" /\ PostStoryLacksBody
               \/ last.op = "verify" /\ (VerifyLacksIdentity \/ VerifyFileUnreadable)
        /\ Len(last.sent) = 0 => last.out.k = "raise"

C10_Witness ==
    /\ AINewsCall /\ last.op = "verify"
    /\ last.before.file.exists
    /\ last.args["verification_code"] = None
    /\ Document(last.before.file)["verification_code"] = None
    /\ last.sent = << >>
    /\ last.out.k = "raise"

(***************************************************************************)
(* The life of the credentials file.                                       *)
(***************************************************************************)
\* the operations that only talk to the server
ReadOnlyOps ==
    { "get_stories", "get_story", "post_story", "upvote_story", "health" }

\* the last call was a register that returned and wrote the file: saving was
\* enabled and the response carried a non-empty api_key
RegisterWrote ==
    /\ last.op = "register" /\ last.out.k = "return"
    /\ last.args["save_credentials"] = True
    /\ Truthy(Get(last.out.val.d, "api_key", None))

\* the last call was a verify that returned with a credentials file present
VerifyWrote ==
    /\ last.op = "verify" /\ last.out.k = "return"
    /\ last.before.file.exists

\* C11 as stated: the file is created only by a register that returns, an
\* existing file is modified only by a verify that returns, the file is
\* never deleted, and get_stories, get_story, post_story, upvote_story and
\* health leave the file and the client's api_key as they were.
C11_Original ==
    (program = "ainews" /\ last # NoCall) =>
        /\ last.before.file.exists => cred_file.exists
        /\ (~ last.before.file.exists /\ cred_file.exists) =>
               (last.op = "register" /\ last.out.k = "return")
        /\ (last.before.file.exists /\ cred_file # last.before.file) =>
               (last.op = "verify" /\ last.out.k = "return")
        /\ last.op \in ReadOnlyOps =>
               /\ cred_file = last.before.file
               /\ client.api_key = last.before.client.api_key

\* C11 (amended): the credentials file is written only by a register that
\* returns with saving enabled and a non-empty api_key in the response,
\* which creates the file or replaces the whole document of an existing
\* one, and by a verify that returns, which changes an existing file and
\* never creates one.  No call deletes the file, and get_stories, get_story,
\* post_story, upvote_story and health leave the file and the client's
\* api_key as they were.
C11_FileLifecycle ==
    (program = "ainews" /\ last # NoCall) =>
        /\ last.before.file.exists => cred_file.exists
        /\ (~ last.before.file.exists /\ cred_file.exists) => RegisterWrote
        /\ cred_file # last.before.file => (RegisterWrote \/ VerifyWrote)
        /\ last.op \in ReadOnlyOps =>
               /\ cred_file = last.before.file
               /\ client.api_key = last.before.client.api_key

\* a register replaces the document of an existing credentials file
C11_Witness ==
    /\ program = "ainews" /\ RegisterWrote
    /\ last.before.file.exists
    /\ Document(last.before.file)["api_key"] = Str("key-1")
    /\ Document(cred_file)["api_key"] = Str("key-2")

(***************************************************************************)
(* Response bodies.                                                        *)
(***************************************************************************)
\* the credentials file exists and json.load does not accept its text
FileUnparsable(file) == file.exists /\ ~ Loads(file.text).ok

\* {"raw": text}
Raw(text) == DictVal([key \in {"raw"} |-> Str(text)])

\* the value a JSON body decodes to
Decoded(body) == IF body.json = "object" THEN DictVal(body.obj) ELSE ListVal

\* C16 as stated: an operation that gets a success response (2xx) returns
\* {raw: body text} when the body is not valid JSON, and the decoded body
\* when it is.
C16_Original ==
    (Answered /\ last.t.status >= 200 /\ last.t.status < 300) =>
        IF last.t.body.json = "invalid"
        THEN last.out = Return(Raw(last.t.body.text))
        ELSE last.out = Return(Decoded(last.t.body))

\* C16 (amended): for every AINews operation, a response with a status
\* below 400 other than 204 whose body is not valid JSON makes the operation
\* return {raw: body text} rather than fail, and one whose body is a JSON
\* object is returned as decoded, unchanged.  A JSON body that is not an
\* object is returned as decoded by every operation but register, which
\* raises AttributeError; a 204 returns {status: success} whatever its body.
\* A verify whose credentials file exists and does not parse raises
\* JSONDecodeError after any of these responses.
C16_RawFallback ==
    (Answered /\ last.t.status < 400) =>
        CASE last.op = "verify" /\ FileUnparsable(last.before.file) ->
               last.out.k = "raise" /\ last.out.exc.type = "JSONDecodeError"
          [] OTHER ->
        CASE last.t.status = 204 -> last.out = Return(SuccessSentinel)
          [] last.t.status # 204 /\ last.t.body.json = "invalid" ->
               last.out = Return(Raw(last.t.body.text))
          [] last.t.status # 204 /\ last.t.body.json = "object" ->
               last.out = Return(DictVal(last.t.body.obj))
          [] OTHER ->
               IF last.op = "register"
               THEN last.out.k = "raise" /\ last.out.exc.type = "AttributeError"
               ELSE last.out = Return(ListVal)

\* an operation returns the text of an HTML page as {raw: text}
C16_Witness ==
    /\ Answered /\ last.op = "get_stories"
    /\ last.t.status = 200
    /\ last.t.body = HtmlBody
    /\ last.out = Return(Raw("<html>oops</html>"))

(***************************************************************************)
(* Failed operations.                                                      *)
(***************************************************************************)
\* C17: an AINews operation that raises leaves the client and the
\* credentials file as they were before the call: a register that raises
\* changes neither the client's api_key and journalist_name nor the file,
\* and a verify that raises, locally or from the server, leaves the file
\* unchanged, so that it does not become verified.
C17_FailureLeavesState ==
    (AINewsCall /\ last.out.k = "raise") =>
        /\ client = last.before.client
        /\ cred_file = last.before.file
        /\ last.op = "register" =>
               /\ client.api_key = last.before.client.api_key
               /\ client.journalist_name = last.before.client.journalist_name
        /\ (last.op = "verify" /\ cred_file.exists
               /\ ~ FileUnparsable(last.before.file)) =>
               /\ ~ FileUnparsable(cred_file)
               /\ Document(cred_file)["verified"] =
                      Document(last.before.file)["verified"]

\* the server rejects a verify while the file holds an unverified document
C17_Witness ==
    /\ AINewsCall /\ last.op = "verify"
    /\ last.out.k = "raise" /\ last.t.status = 404
    /\ cred_file.exists /\ ~ FileUnparsable(cred_file)
    /\ Document(cred_file)["verified"] = False
    /\ client.api_key = Str("key-1")

(***************************************************************************)
(* The base URL of a client built from the credentials file.               *)
(***************************************************************************)
\* AINEWS_BASE_URL, or the hard-coded default when it is not set
EnvBaseUrl ==
    IF "AINEWS_BASE_URL" \in DOMAIN environ
    THEN environ["AINEWS_BASE_URL"] ELSE Str(DEFAULT_BASE_URL)

\* the base URL that register recorded in the credentials file
RecordedBaseUrl(file) == Document(file)["base_url"]

\* C18: a client that from_credentials returns has the journalist_name of
\* the file, the api_key of the file (AINEWS_API_KEY when the file has
\* none), and the base URL of AINEWS_BASE_URL or else the default, whatever
\* base_url the file records; every request of a client goes to the
\* client's base URL followed by the endpoint.
C18_BaseUrlNotFromFile ==
    /\ (program = "ainews" /\ last.op = "from_credentials"
            /\ last.out.k = "return") =>
           /\ client.base_url = EnvBaseUrl
           /\ client.journalist_name =
                  Get(Document(cred_file), "journalist_name", None)
           /\ client.api_key =
                  FirstNonEmpty(<<Get(Document(cred_file), "api_key", None),
                                  EnvKey>>)
    /\ (AINewsCall /\ Len(last.sent) = 1) =>
           StartsWith(last.sent[1].url, last.before.client.base_url.v \o "/")

\* after a register against an overridden base URL, from_credentials
\* builds a client of the registered key whose base URL is the default
C18_Witness ==
    /\ program = "ainews" /\ last.op = "from_credentials"
    /\ last.out.k = "return"
    /\ environ = EmptyDict
    /\ RecordedBaseUrl(cred_file) = Str("http://arg.example/api")
    /\ client.api_key = Str("key-1")
    /\ client.base_url = Str(DEFAULT_BASE_URL)

(***************************************************************************)
(* Moltbook.                                                               *)
(***************************************************************************)
\* the file holds credentials that "if not creds" accepts
HasCredentials(file) == file.exists /\ Document(file) # EmptyDict

\* the last call ran create_post, directly or as the command "create"
RanCreatePost ==
    /\ program = "moltbook"
    /\ last.op = "create_post" \/ (last.op = "main" /\ last.ran = "create_post")

\* the content and the url that create_post was called with
CreateContent ==
    IF last.op = "create_post" THEN last.args["content"]
    ELSE IF Len(last.args["argv"]) > 3
    THEN Str(Join(SubSeq(last.args["argv"], 4, Len(last.args["argv"]))))
    ELSE None

CreateUrl == IF last.op = "create_post" THEN last.args["url"] ELSE None

CreateLacksBody == ~ Truthy(CreateContent) /\ ~ Truthy(CreateUrl)

\* C15 as stated: create_post with neither content nor url raises a
\* validation error and issues no request.
C15_Original ==
    (RanCreatePost /\ CreateLacksBody) =>
        /\ last.out.k = "raise"
        /\ last.sent = << >>

\* C15 (amended): create_post does not validate content and url.  Called
\* with neither while credentials are stored, it issues exactly one
\* POST /posts whose body holds the submolt and the title and nothing else,
\* and ends as the transport and the status decide; without stored
\* credentials it issues no request and returns None.  It never raises a
\* validation error.
C15_CreateWithoutBody ==
    (RanCreatePost /\ CreateLacksBody) =>
        /\ last.out.k = "raise" =>
               last.out.exc.type \in RequestExceptionTypes \cup {"JSONDecodeError"}
        /\ IF HasCredentials(last.before.file)
           THEN /\ Len(last.sent) = 1
                /\ last.sent[1].method = "POST"
                /\ last.sent[1].url = BASE_URL \o "/posts"
                /\ last.sent[1].json.t = "dict"
                /\ DOMAIN last.sent[1].json.d = {"submolt", "title"}
                /\ (last.t.exc = "" /\ last.t.status \in {200, 201}
                       /\ last.t.body.json # "invalid") =>
                       last.out = Return(DecodeBody(last.t.body))
           ELSE /\ last.sent = << >>
                /\ last.out = Return(NoVal)

\* the command "create general Hello" posts a title without content or url
\* and the server accepts it
C15_Witness ==
    /\ RanCreatePost /\ CreateLacksBody
    /\ last.op = "main"
    /\ last.args["argv"] = <<"create", "general", "Hello">>
    /\ last.t.status = 201
    /\ Len(last.sent) = 1
    /\ DOMAIN last.sent[1].json.d = {"submolt", "title"}
    /\ last.out.k = "return" /\ last.out.val.t = "dict"

\* the Moltbook function that the last call ran, "" when it ran none
MoltbookFunction ==
    IF program # "moltbook" THEN ""
    ELSE IF last.op = "main" THEN last.ran
    ELSE IF last.op \in {"save_credentials", "load_credentials"} THEN ""
    ELSE last.op

\* the statuses a Moltbook function takes for a success
OkStatuses(function) ==
    IF function \in {"register", "create_post", "add_comment"}
    THEN {200, 201} ELSE {200}

\* the three failures of a Moltbook function
MissingCredentials ==
    /\ MoltbookFunction \notin {"", "register"}
    /\ ~ HasCredentials(last.before.file)

TransportFailed == MoltbookFunction # "" /\ Len(last.sent) = 1 /\ last.t.exc # ""

StatusRefused ==
    /\ MoltbookFunction # "" /\ Len(last.sent) = 1 /\ last.t.exc = ""
    /\ last.t.status \notin OkStatuses(MoltbookFunction)

\* C14 as stated: a Moltbook function that fails (status, transport or
\* missing credentials) ends with an error and not with a normal return,
\* and the command that ran it exits with a status other than 0.
C14_Original ==
    (MissingCredentials \/ TransportFailed \/ StatusRefused) =>
        /\ last.out.k = "raise"
        /\ last.op = "main" => last.exit_code # Num("0")

\* C14 (amended): a Moltbook function that finds no credentials or gets a
\* status it does not take for a success prints a message and returns None,
\* which is a normal return, and the command that ran it exits with status
\* 0.  Only a transport failure reaches the immediate caller as an error: the
\* exception of the transport, unwrapped, which also leaves main and ends
\* the command with status 1.  A command exits with status 1 exactly when an
\* exception leaves its function.
C14_MoltbookFailures ==
    /\ (MissingCredentials \/ StatusRefused) =>
           /\ last.out = Return(NoVal)
           /\ last.op = "main" =>
                  (last.exit_code = Num("0") /\ last.uncaught = NoExc)
    /\ MissingCredentials => last.sent = << >>
    /\ TransportFailed =>
           /\ last.out = Raise(Exc(last.t.exc, Str(last.t.text), None, None, ""))
           /\ last.op = "main" =>
                  (last.exit_code = Num("1") /\ last.uncaught = last.out.exc)
    /\ (program = "moltbook" /\ last.op = "main") =>
           /\ last.exit_code \in {Num("0"), Num("1")}
           /\ last.exit_code = Num("1") <=> last.out.k = "raise"

\* the command "status" is refused by the server with 404 and exits with 0
C14_Witness ==
    /\ program = "moltbook" /\ last.op = "main"
    /\ last.ran = "check_status"
    /\ StatusRefused /\ last.t.status = 404
    /\ last.out = Return(NoVal)
    /\ last.exit_code = Num("0")

(***************************************************************************)
(* The exit status of the AINews commands.                                 *)
(***************************************************************************)
\* the last call was a command of ainews_client.py that got as far as
\* building a client
AINewsCommand == program = "ainews_cli" /\ last.op = "main" /\ last.ran # ""

\* text is the end of one of the lines
Reports(lines, text) ==
    \E i \in 1..Len(lines) :
        /\ Len(lines[i]) >= Len(text)
        /\ SubSeq(lines[i], Len(lines[i]) - Len(text) + 1, Len(lines[i])) = text

\* the lines report the message of the error, and its code and its details
\* when it has them
ReportsError(lines, exc) ==
    /\ Reports(lines, Format(exc.message))
    /\ Truthy(exc.code) => Reports(lines, "Code: " \o Format(exc.code))
    /\ Truthy(exc.details) => Reports(lines, "Details: " \o Format(exc.details))

\* C13: an AINews command whose operation returns ends with exit status 0,
\* and a command in which an error is raised (API error, transport failure,
\* missing or unparsable credentials file, local validation failure) ends
\* with exit status 1 after it has printed the message, the code and the
\* details of the error.
C13_ExitStatus ==
    AINewsCommand =>
        /\ last.out.k = "return" => last.exit_code = Num("0")
        /\ last.out.k = "raise" =>
               /\ last.exit_code = Num("1")
               /\ ReportsError(last.printed, last.out.exc)

(***************************************************************************)
(* A verify and a register that run at the same time.                      *)
(***************************************************************************)
\* the place of an access in the log, 0 when it has not happened
At(access) ==
    LET at == { i \in 1..Len(proc.log) : proc.log[i] = access }
    IN  IF at = {} THEN 0 ELSE CHOOSE i \in at : TRUE

\* both accesses happened, a before b
Before(a, b) == At(a) > 0 /\ At(a) < At(b)

\* verify read the document before register replaced it and wrote it back
\* after register had written
StaleWriteBack ==
    /\ program = "concurrent"
    /\ Before("verify.read", "register.open")
    /\ Before("register.dump", "verify.dump")

\* C12: nothing locks the credentials file, and the last writer wins.  When
\* verify reads the document before a concurrent register replaces it and
\* writes it back after register has written, the file holds the document
\* verify had read, marked verified and with the handle: its api_key is the
\* one from before the register and not the one register stored.  Such an
\* interleaving exists (C12_Witness).
C12_LastWriterWins ==
    StaleWriteBack =>
        LET old == Document(proc.verify.read)
        IN  /\ ~ FileUnparsable(cred_file)
            /\ DOMAIN Document(cred_file) = DOMAIN old \cup {"twitter_handle"}
            /\ \A key \in DOMAIN old \ {"verified", "twitter_handle"} :
                   Document(cred_file)[key] = old[key]
            /\ Document(cred_file)["verified"] = True
            /\ Document(cred_file)["twitter_handle"] = Str("bob")

\* register has stored key-2, and the file is verified and carries key-1
C12_Witness ==
    /\ StaleWriteBack
    /\ proc.register.pc = "returned" /\ proc.verify.pc = "returned"
    /\ Document(proc.register.doc)["api_key"] = Str("key-2")
    /\ Document(cred_file)["api_key"] = Str("key-1")
    /\ Document(cred_file)["verified"] = True

====
